---- MODULE Spec2Model ----
(***************************************************************************)
(* Model of store/sqlstore/upgrade.go: the schema version bookkeeping      *)
(* (getVersion, setVersion) and the migration runner (Container.Upgrade)   *)
(* over the migration list Upgrades = {upgradeV1, upgradeV2}.              *)
(*                                                                         *)
(* The database is a record db of its committed (durable) content.  Every  *)
(* database call of the code (c.db.Exec, c.db.QueryRow, c.db.Begin,        *)
(* tx.Exec, tx.Rollback, tx.Commit) is one action; each may fail while the *)
(* fault budget lasts.  A transaction is a record of pending effects that  *)
(* only Commit makes durable (transactional DDL).  A transaction that is   *)
(* neither committed nor rolled back keeps the locks on what it wrote: a   *)
(* statement of another transaction that writes the same table definition  *)
(* or the same rows waits until the holder ends.                           *)
(***************************************************************************)
EXTENDS Integers, Sequences, FiniteSets, TLC

\* Bounds of the exploration.
MaxCalls == 3       \* invocations of Upgrade / getVersion in one behaviour
MaxFaults == 2      \* failing database operations in one behaviour

AllProcs == {1, 2}

\* var Upgrades = [...]upgradeFunc{upgradeV1, upgradeV2}; indices 0..1 in Go.
Upgrades == <<"upgradeV1", "upgradeV2">>

LenUpgrades == Len(Upgrades)

StepIdx == 0 .. (LenUpgrades - 1)

\* The tables upgradeV1 creates, one tx.Exec each, in statement order.
V1Tables ==
    << "whatsmeow_device", "whatsmeow_identity_keys", "whatsmeow_sessions",
       "whatsmeow_sender_keys", "whatsmeow_app_state_sync_keys",
       "whatsmeow_app_state_version", "whatsmeow_app_state_mutation_macs",
       "whatsmeow_contacts", "whatsmeow_chat_settings" >>

VARIABLES
    procs,      \* the processes that use the store
    db,         \* committed content: [table, rows, schema, applied]
    pc,         \* per process: position in Upgrade / getVersion
    version,    \* per process: the local variable version
    err,        \* per process: the local variable err; the returned error at "idle"
    tx,         \* per process: the transaction handle tx
    call,       \* per process: record of the current (or last) invocation
    prev,       \* per process: summary of the Upgrade invocation before it
    calls,      \* invocations started so far
    faults,     \* failed database operations so far
    leaked      \* transactions that Upgrade returned without ending

vars == <<procs, db, pc, version, err, tx, call, prev, calls, faults, leaked>>

----------------------------------------------------------------------------
\* Data

NoTx == [state |-> "none", schema |-> {}, steps |-> <<>>, del |-> FALSE, ins |-> <<>>]

OpenTx == [NoTx EXCEPT !.state = "open"]

EmptyDB ==
    [table |-> FALSE, rows |-> <<>>, schema |-> {}, applied |-> [i \in StepIdx |-> 0]]

NoCall == [op |-> "none", ran |-> <<>>, begun |-> 0, fl |-> {}, pre |-> EmptyDB, txPre |-> EmptyDB]

NoPrev == [op |-> "none", err |-> "nil", at |-> 0, fl |-> {}]

Count(s, x) == Cardinality({j \in DOMAIN s : s[j] = x})

Prefix(n) == {V1Tables[j] : j \in 1 .. n}

\* Whether one more database operation may fail, and the outcomes to explore.
Outcomes == IF faults < MaxFaults THEN {TRUE, FALSE} ELSE {TRUE}

----------------------------------------------------------------------------
\* The code's pure parts

\* getVersion: version := 0; row.Scan(&version) with its error discarded.
\* rs are the rows of whatsmeow_version, i the row LIMIT 1 delivers, ok whether
\* the query and the scan succeed.
ScanVersionUnset(rs, i, ok) == IF rs = <<>> \/ ~ok THEN -1 ELSE rs[i]

ScanVersionNoScan(rs, i, ok) == 0

ScanVersion(rs, i, ok) == IF rs = <<>> \/ ~ok THEN 0 ELSE rs[i]

\* Upgrade: for ; version < len(Upgrades); version++
LoopCondShort(v) == v < LenUpgrades - 1

LoopCond(v) == v < LenUpgrades

\* Upgrade: c.setVersion(tx, version+1)
NewVersionSame(v) == v

NewVersionSkip(v) == v + 2

NewVersion(v) == v + 1

\* upgradeV1(tx, _): nine "create table IF NOT EXISTS", returning at the first
\* error.  failAt = 0: none fails; failAt = j: statement j fails.
upgradeV1(t, failAt) ==
    IF failAt = 0
    THEN [tx |-> [t EXCEPT !.schema = @ \cup Prefix(Len(V1Tables))], err |-> "nil"]
    ELSE [tx |-> [t EXCEPT !.schema = @ \cup Prefix(failAt - 1)], err |-> "errStep"]

\* upgradeV2(tx, container): body commented out, return nil.
upgradeV2(t, failAt) == [tx |-> t, err |-> "nil"]

\* migrateFunc := Upgrades[version]; err = migrateFunc(tx, c)
migrateFunc(v, t, failAt) ==
    IF Upgrades[v + 1] = "upgradeV1" THEN upgradeV1(t, failAt) ELSE upgradeV2(t, failAt)

\* The statements of step v that can return an error.
FailPoints(v) == IF Upgrades[v + 1] = "upgradeV1" THEN 1 .. Len(V1Tables) ELSE {}

\* Upgrade after migrateFunc: if err != nil { tx.Rollback(); return err }
AfterMigrateUnchecked(e) == "delete"

AfterMigrate(e) == IF e # "nil" THEN "rollback" ELSE "delete"

\* Upgrade: return err.  The error of the database call is returned as it is;
\* ErrStepIndex(e) is the step index that the error value e carries, -1 for
\* none: no error value of the database names a step.
ErrStepIndex(e) == -1

\* setVersion: tx.Exec("DELETE FROM whatsmeow_version")
ExecDeleteSkip(d, t) == [db |-> d, tx |-> t]

ExecDeleteOnDB(d, t) == [db |-> [d EXCEPT !.rows = <<>>], tx |-> t]

ExecDelete(d, t) == [db |-> d, tx |-> [t EXCEPT !.del = TRUE]]

\* setVersion: tx.Exec("INSERT INTO whatsmeow_version (version) VALUES (?)", version)
ExecInsert(d, t, v) == [db |-> d, tx |-> [t EXCEPT !.ins = Append(@, v)]]

\* What a committed transaction makes durable.
CommitTxKeepRows(d, t) ==
    [d EXCEPT !.rows = @ \o t.ins,
              !.schema = @ \cup t.schema,
              !.applied = [i \in StepIdx |-> @[i] + Count(t.steps, i)]]

CommitTx(d, t) ==
    [d EXCEPT !.rows = (IF t.del THEN <<>> ELSE @) \o t.ins,
              !.schema = @ \cup t.schema,
              !.applied = [i \in StepIdx |-> @[i] + Count(t.steps, i)]]

\* c.db.Exec("CREATE TABLE IF NOT EXISTS whatsmeow_version (version INTEGER)")
CreateTableNot(d) == d

CreateTable(d) == [d EXCEPT !.table = TRUE]

\* The version a fault-free getVersion reads from committed content d.
VersionOf(d) == IF d.rows = <<>> THEN 0 ELSE d.rows[1]

PersistedVersion == VersionOf(db)

----------------------------------------------------------------------------
\* Initial states

\* No process is inside a call; c of the invocations and f of the failing
\* operations that one behaviour explores are already spent.
InitBudget(c, f) ==
    /\ pc = [p \in AllProcs |-> "idle"]
    /\ version = [p \in AllProcs |-> 0]
    /\ err = [p \in AllProcs |-> "nil"]
    /\ tx = [p \in AllProcs |-> NoTx]
    /\ call = [p \in AllProcs |-> NoCall]
    /\ prev = [p \in AllProcs |-> NoPrev]
    /\ calls = c
    /\ faults = f
    /\ leaked = {}

InitLocals == InitBudget(0, 0)

\* A brand-new store used by one process.
Init ==
    /\ procs = {1}
    /\ db = EmptyDB
    /\ InitLocals

\* A store that earlier runs left at version v: one row holding v, the steps
\* below v applied once each.  v = LenUpgrades + 1 is a store written by a
\* release that has one more step.
StoredDB(v) ==
    [table |-> TRUE, rows |-> <<v>>,
     schema |-> Prefix(Len(V1Tables)),
     applied |-> [i \in StepIdx |-> IF i < v THEN 1 ELSE 0]]

\* A brand-new or an already versioned store used by one process.
InitStored ==
    /\ procs = {1}
    /\ db \in {EmptyDB} \cup {StoredDB(v) : v \in 1 .. (LenUpgrades + 1)}
    /\ InitLocals

\* Version rows that a bookkeeping table may hold when a process comes to
\* it: none, one, or several.
RowSets == {<<>>, <<1>>, <<1, 1>>, <<1, 2>>, <<2, 1>>}

RowMax(rs) == IF rs = <<>> THEN 0 ELSE CHOOSE m \in {rs[j] : j \in DOMAIN rs} :
                                          \A j \in DOMAIN rs : rs[j] <= m

\* A store whose bookkeeping table holds the rows rs.
RowsDB(rs) ==
    IF rs = <<>> THEN [EmptyDB EXCEPT !.table = TRUE]
    ELSE [StoredDB(RowMax(rs)) EXCEPT !.rows = rs]

InitRows ==
    /\ procs = {1}
    /\ db \in {RowsDB(rs) : rs \in RowSets}
    /\ InitLocals

\* A brand-new store used by two processes with no lock around Upgrade.
\* The two-process exploration spends one invocation and one failing
\* operation less than the single-process ones.
InitConc ==
    /\ procs = {1, 2}
    /\ db = EmptyDB
    /\ InitBudget(1, 1)

----------------------------------------------------------------------------
\* Locks of unfinished transactions

\* The transactions, other than the one p is running, that are still open:
\* those left open by an Upgrade that returned, and those of other processes.
Holders(p) == leaked \cup {tx[q] : q \in {r \in procs \ {p} : tx[r].state = "open"}}

\* Tables created by an open transaction and not yet committed.
LockedTables(p) == (UNION {h.schema : h \in Holders(p)}) \ db.schema

\* The committed version rows are deleted by an open transaction.
RowsLocked(p) == db.rows # <<>> /\ \E h \in Holders(p) : h.del

\* The tables step v has created when it fails at statement failAt (0: never).
TablesTouched(v, failAt) == migrateFunc(v, NoTx, failAt).tx.schema

\* The next statement of p has to wait for an open transaction.
Blocked(p) ==
    \/ pc[p] = "migrate" /\ TablesTouched(version[p], 0) \cap LockedTables(p) # {}
    \/ pc[p] = "delete" /\ RowsLocked(p)

----------------------------------------------------------------------------
\* Actions

\* Entry into Container.Upgrade.
CallUpgrade(p) ==
    /\ pc[p] = "idle"
    /\ calls < MaxCalls
    /\ calls' = calls + 1
    /\ pc' = [pc EXCEPT ![p] = "create"]
    /\ err' = [err EXCEPT ![p] = "nil"]
    /\ prev' = [prev EXCEPT ![p] =
                  IF call[p].op = "Upgrade"
                  THEN [op |-> "Upgrade", err |-> err[p], at |-> version[p], fl |-> call[p].fl]
                  ELSE @]
    /\ call' = [call EXCEPT ![p] = [NoCall EXCEPT !.op = "Upgrade", !.pre = db, !.txPre = db]]
    /\ UNCHANGED <<procs, leaked, db, version, tx, faults>>

\* Entry into Container.getVersion on its own.
CallGetVersion(p) ==
    /\ pc[p] = "idle"
    /\ calls < MaxCalls
    /\ calls' = calls + 1
    /\ pc' = [pc EXCEPT ![p] = "create"]
    /\ err' = [err EXCEPT ![p] = "nil"]
    /\ prev' = [prev EXCEPT ![p] =
                  IF call[p].op = "Upgrade"
                  THEN [op |-> "Upgrade", err |-> err[p], at |-> version[p], fl |-> call[p].fl]
                  ELSE @]
    /\ call' = [call EXCEPT ![p] = [NoCall EXCEPT !.op = "GetVersion", !.pre = db, !.txPre = db]]
    /\ UNCHANGED <<procs, leaked, db, version, tx, faults>>

\* ExecCreate with the error of the CREATE TABLE not checked.
ExecCreateIgnored(p) ==
    /\ pc[p] = "create"
    /\ \E ok \in Outcomes :
         /\ db' = IF ok THEN CreateTable(db) ELSE db
         /\ call' = [call EXCEPT ![p].fl = IF ok THEN @ ELSE @ \cup {"create"}]
         /\ faults' = IF ok THEN faults ELSE faults + 1
    /\ pc' = [pc EXCEPT ![p] = "query"]
    /\ UNCHANGED <<procs, leaked, version, err, tx, prev, calls>>

\* getVersion: CREATE TABLE IF NOT EXISTS; on error return -1, err, which
\* Upgrade returns at once.
ExecCreate(p) ==
    /\ pc[p] = "create"
    /\ \E ok \in Outcomes :
         IF ok
         THEN /\ db' = CreateTable(db)
              /\ pc' = [pc EXCEPT ![p] = "query"]
              /\ UNCHANGED <<version, err, call, faults>>
         ELSE /\ version' = [version EXCEPT ![p] = -1]
              /\ err' = [err EXCEPT ![p] = "errCreate"]
              /\ pc' = [pc EXCEPT ![p] = "idle"]
              /\ call' = [call EXCEPT ![p].fl = @ \cup {"create"}]
              /\ faults' = faults + 1
              /\ UNCHANGED db
    /\ UNCHANGED <<procs, leaked, tx, prev, calls>>

\* getVersion: SELECT version ... LIMIT 1 and row.Scan, whose error is dropped;
\* return version, nil.  In Upgrade the loop follows.
QueryRow(p) ==
    /\ pc[p] = "query"
    /\ \E ok \in Outcomes :
       \E i \in (IF db.rows = <<>> THEN {1} ELSE DOMAIN db.rows) :
         /\ version' = [version EXCEPT ![p] = ScanVersion(db.rows, i, ok)]
         /\ call' = [call EXCEPT ![p].fl = IF ok THEN @ ELSE @ \cup {"read"}]
         /\ faults' = IF ok THEN faults ELSE faults + 1
    /\ pc' = [pc EXCEPT ![p] = IF call[p].op = "Upgrade" THEN "loop" ELSE "idle"]
    /\ UNCHANGED <<procs, leaked, db, err, tx, prev, calls>>

\* Upgrade: loop condition true; tx, err = c.db.Begin(); on error return err.
Begin(p) ==
    /\ pc[p] = "loop"
    /\ LoopCond(version[p])
    /\ \E ok \in Outcomes :
         IF ok
         THEN /\ tx' = [tx EXCEPT ![p] = OpenTx]
              /\ pc' = [pc EXCEPT ![p] = "migrate"]
              /\ call' = [call EXCEPT ![p].begun = @ + 1, ![p].txPre = db]
              /\ UNCHANGED <<err, faults>>
         ELSE /\ err' = [err EXCEPT ![p] = "errBegin"]
              /\ pc' = [pc EXCEPT ![p] = "idle"]
              /\ call' = [call EXCEPT ![p].fl = @ \cup {"begin"}]
              /\ faults' = faults + 1
              /\ UNCHANGED tx
    /\ UNCHANGED <<procs, leaked, db, version, prev, calls>>

\* Upgrade: loop condition false; return nil.
ReturnNil(p) ==
    /\ pc[p] = "loop"
    /\ ~LoopCond(version[p])
    /\ pc' = [pc EXCEPT ![p] = "idle"]
    /\ err' = [err EXCEPT ![p] = "nil"]
    /\ UNCHANGED <<procs, leaked, db, version, tx, call, prev, calls, faults>>

\* Upgrade: err = migrateFunc(tx, c) and the check of err.
Migrate(p) ==
    /\ pc[p] = "migrate"
    /\ \E f \in {0} \cup (IF faults < MaxFaults THEN FailPoints(version[p]) ELSE {}) :
         LET r == migrateFunc(version[p], tx[p], f) IN
         /\ TablesTouched(version[p], f) \cap LockedTables(p) = {}
         /\ tx' = [tx EXCEPT ![p] =
                     IF r.err = "nil"
                     THEN [r.tx EXCEPT !.steps = Append(@, version[p])]
                     ELSE r.tx]
         /\ err' = [err EXCEPT ![p] = r.err]
         /\ pc' = [pc EXCEPT ![p] = AfterMigrate(r.err)]
         /\ call' = [call EXCEPT ![p].ran = Append(@, version[p]),
                                 ![p].fl = IF f = 0 THEN @ ELSE @ \cup {"step"}]
         /\ faults' = IF f = 0 THEN faults ELSE faults + 1
    /\ UNCHANGED <<procs, leaked, db, version, prev, calls>>

\* Upgrade: _ = tx.Rollback(); return err.
Rollback(p) ==
    /\ pc[p] = "rollback"
    /\ tx' = [tx EXCEPT ![p].state = "rolledback"]
    /\ pc' = [pc EXCEPT ![p] = "idle"]
    /\ UNCHANGED <<procs, leaked, db, version, err, call, prev, calls, faults>>

\* setVersion: the DELETE; on error setVersion returns it and Upgrade returns it.
SetVersionDelete(p) ==
    /\ pc[p] = "delete"
    /\ \E ok \in Outcomes :
         IF ok
         THEN LET r == ExecDelete(db, tx[p]) IN
              /\ ~RowsLocked(p)
              /\ db' = r.db
              /\ tx' = [tx EXCEPT ![p] = r.tx]
              /\ pc' = [pc EXCEPT ![p] = "insert"]
              /\ UNCHANGED <<err, call, faults, leaked>>
         ELSE /\ err' = [err EXCEPT ![p] = "errDelete"]
              /\ pc' = [pc EXCEPT ![p] = "idle"]
              /\ call' = [call EXCEPT ![p].fl = @ \cup {"delete"}]
              /\ faults' = faults + 1
              /\ leaked' = leaked \cup {tx[p]}
              /\ UNCHANGED <<db, tx>>
    /\ UNCHANGED <<procs, version, prev, calls>>

\* setVersion: the INSERT of version+1; its error is returned the same way.
SetVersionInsert(p) ==
    /\ pc[p] = "insert"
    /\ \E ok \in Outcomes :
         IF ok
         THEN LET r == ExecInsert(db, tx[p], NewVersion(version[p])) IN
              /\ db' = r.db
              /\ tx' = [tx EXCEPT ![p] = r.tx]
              /\ pc' = [pc EXCEPT ![p] = "commit"]
              /\ UNCHANGED <<err, call, faults, leaked>>
         ELSE /\ err' = [err EXCEPT ![p] = "errInsert"]
              /\ pc' = [pc EXCEPT ![p] = "idle"]
              /\ call' = [call EXCEPT ![p].fl = @ \cup {"insert"}]
              /\ faults' = faults + 1
              /\ leaked' = leaked \cup {tx[p]}
              /\ UNCHANGED <<db, tx>>
    /\ UNCHANGED <<procs, version, prev, calls>>

\* Upgrade: tx.Commit(); on error return err, else version++ and loop.  A
\* failed commit is all-or-nothing: the transaction ends either made durable
\* or discarded.
Commit(p) ==
    /\ pc[p] = "commit"
    /\ \E ok \in Outcomes :
         IF ok
         THEN /\ db' = CommitTx(db, tx[p])
              /\ tx' = [tx EXCEPT ![p].state = "committed"]
              /\ version' = [version EXCEPT ![p] = @ + 1]
              /\ pc' = [pc EXCEPT ![p] = "loop"]
              /\ UNCHANGED <<err, call, faults>>
         ELSE /\ \E all \in BOOLEAN :
                   /\ db' = IF all THEN CommitTx(db, tx[p]) ELSE db
                   /\ tx' = [tx EXCEPT ![p].state = IF all THEN "committed" ELSE "rolledback"]
              /\ err' = [err EXCEPT ![p] = "errCommit"]
              /\ pc' = [pc EXCEPT ![p] = "idle"]
              /\ call' = [call EXCEPT ![p].fl = @ \cup {"commit"}]
              /\ faults' = faults + 1
              /\ UNCHANGED version
    /\ UNCHANGED <<procs, leaked, prev, calls>>

Next ==
    \/ \E p \in procs : CallUpgrade(p)
    \/ \E p \in procs : CallGetVersion(p)
    \/ \E p \in procs : ExecCreate(p)
    \/ \E p \in procs : QueryRow(p)
    \/ \E p \in procs : Begin(p)
    \/ \E p \in procs : ReturnNil(p)
    \/ \E p \in procs : Migrate(p)
    \/ \E p \in procs : Rollback(p)
    \/ \E p \in procs : SetVersionDelete(p)
    \/ \E p \in procs : SetVersionInsert(p)
    \/ \E p \in procs : Commit(p)

Spec == Init /\ [][Next]_vars

SpecStored == InitStored /\ [][Next]_vars

SpecRows == InitRows /\ [][Next]_vars

SpecConc == InitConc /\ [][Next]_vars

----------------------------------------------------------------------------
\* Vocabulary of the properties

\* Process p is in, or has returned from, an invocation of Upgrade.
InUpgrade(p) == p \in procs /\ call[p].op = "Upgrade"

\* The invocation of Upgrade by p has returned.
Returned(p) == InUpgrade(p) /\ pc[p] = "idle"

\* <<a, a+1, ..., b-1>>
Range(a, b) == [j \in 1 .. (b - a) |-> a + j - 1]

Last(s) == s[Len(s)]

\* The steps whose effects are durable.
DurableSteps == {i \in StepIdx : db.applied[i] > 0}

----------------------------------------------------------------------------
\* C1  Exactly-once application: an invocation of Upgrade in which no
\* operation fails, on a store at version 0, has on return executed the steps
\* 0..N-1 once each in ascending order (each made durable once more than
\* before), returns nil, and leaves the persisted version N.
C1_ExactlyOnce ==
    \A p \in procs :
        (Returned(p) /\ call[p].fl = {} /\ VersionOf(call[p].pre) = 0) =>
            /\ call[p].ran = Range(0, LenUpgrades)
            /\ \A i \in StepIdx : db.applied[i] = call[p].pre.applied[i] + 1
            /\ PersistedVersion = LenUpgrades
            /\ err[p] = "nil"

C1_Witness ==
    \E p \in procs :
        /\ Returned(p) /\ call[p].fl = {} /\ VersionOf(call[p].pre) = 0
        /\ call[p].ran = <<0, 1>>
        /\ PersistedVersion = 2

\* C2  Resumability: an invocation of Upgrade whose one failing operation is
\* step k returns an error with the persisted version k; the next invocation
\* of Upgrade, in which nothing fails, executes exactly the steps k..N-1.
C2_Resumable ==
    \A p \in procs :
        /\ (Returned(p) /\ call[p].fl = {"step"}) =>
              /\ err[p] = "errStep"
              /\ Last(call[p].ran) = version[p]
              /\ PersistedVersion = version[p]
        /\ (Returned(p) /\ call[p].fl = {} /\ prev[p].op = "Upgrade" /\ prev[p].fl = {"step"}) =>
              /\ err[p] = "nil"
              /\ call[p].ran = Range(prev[p].at, LenUpgrades)
              /\ \A j \in DOMAIN call[p].ran : call[p].ran[j] >= prev[p].at
              /\ PersistedVersion = LenUpgrades

C2_Witness ==
    \E p \in procs :
        /\ Returned(p) /\ call[p].fl = {}
        /\ prev[p].op = "Upgrade" /\ prev[p].fl = {"step"} /\ prev[p].err = "errStep"
        /\ call[p].ran = Range(prev[p].at, LenUpgrades)
        /\ PersistedVersion = LenUpgrades

\* C3  Monotonicity (as claimed): whatever operations fail, no step of the
\* program lowers the persisted version or takes it above N.
C3_Monotonic ==
    [][PersistedVersion' >= PersistedVersion /\ PersistedVersion' <= LenUpgrades]_vars

\* C4  Atomicity of step and version bump: when Upgrade returns the error of
\* setVersion (its DELETE or its INSERT) after step i ran, nothing of that
\* transaction is durable: the committed content is what it was when the
\* transaction began, and the persisted version is still i.
C4_Atomic ==
    \A p \in procs :
        (Returned(p) /\ err[p] \in {"errDelete", "errInsert"}) =>
            /\ tx[p].steps = <<version[p]>>
            /\ tx[p].state # "committed"
            /\ db = call[p].txPre
            /\ ("read" \notin call[p].fl => PersistedVersion = version[p])

C4_Witness ==
    \E p \in procs :
        /\ Returned(p) /\ err[p] = "errInsert"
        /\ version[p] = 1 /\ tx[p].steps = <<1>> /\ tx[p].del
        /\ db.rows = <<1>>

\* C5  Transaction release (as claimed): when Upgrade has returned, the
\* transaction it began last is committed or rolled back.
C5_NoOpenTx ==
    \A p \in procs : Returned(p) => tx[p].state # "open"

\* C6  Version is a cursor (as claimed): in every committed state the steps
\* whose effects are durable are exactly 0..version-1.
C6_Cursor ==
    DurableSteps = 0 .. (PersistedVersion - 1)

\* getVersion has returned a version and no error to its caller: to the caller
\* of getVersion itself, or to Upgrade before its loop.
GotVersion(p) ==
    /\ p \in procs
    /\ \/ call[p].op = "GetVersion" /\ pc[p] = "idle" /\ err[p] = "nil"
       \/ call[p].op = "Upgrade" /\ pc[p] = "loop" /\ call[p].begun = 0

\* C7  Idempotent first read: getVersion on a store without the bookkeeping
\* table returns 0 and no error and creates the table; every getVersion
\* returns 0 as long as no upgrade step has committed; getVersion changes
\* neither the version rows nor anything else the steps write.
C7_FirstRead ==
    \A p \in procs :
        /\ call[p].op = "GetVersion" =>
              /\ db.rows = call[p].pre.rows
              /\ db.schema = call[p].pre.schema
              /\ db.applied = call[p].pre.applied
        /\ GotVersion(p) => (db.table /\ (DurableSteps = {} => version[p] = 0))
        /\ (call[p].op = "GetVersion" /\ pc[p] = "idle"
              /\ ~call[p].pre.table /\ "create" \notin call[p].fl) =>
              (err[p] = "nil" /\ version[p] = 0 /\ db.table)

C7_Witness ==
    \E p \in procs :
        /\ call[p].op = "GetVersion" /\ pc[p] = "idle"
        /\ ~call[p].pre.table /\ call[p].fl = {}
        /\ err[p] = "nil" /\ version[p] = 0 /\ db.table

\* C8  Bookkeeping read failure is fatal (as claimed): an invocation of
\* Upgrade in which the read of the version row failed begins no transaction,
\* executes no step and returns an error.
C8_ReadFailureFatal ==
    \A p \in procs :
        (InUpgrade(p) /\ "read" \in call[p].fl) =>
            /\ call[p].begun = 0
            /\ call[p].ran = <<>>
            /\ (pc[p] = "idle" => err[p] # "nil")

\* Step v is a step that changes no schema.
NoOp(v) == v \in StepIdx /\ Upgrades[v + 1] = "upgradeV2"

\* C9  No-op step preserves indexing: the step without schema change runs in
\* a transaction of its own, never fails, and its commit raises the persisted
\* version by exactly one and changes no schema; the steps of an invocation
\* run at consecutive indices and the loop goes on at the next index.
C9_NoOpStep ==
    \A p \in procs :
        InUpgrade(p) =>
            /\ (pc[p] \in {"delete", "insert", "commit"} /\ NoOp(version[p])) =>
                  /\ err[p] = "nil"
                  /\ tx[p].state = "open"
                  /\ tx[p].steps = <<version[p]>>
                  /\ tx[p].schema = {}
            /\ pc[p] = "rollback" => ~NoOp(version[p])
            /\ \A j \in 2 .. Len(call[p].ran) : call[p].ran[j] = call[p].ran[j - 1] + 1
            /\ (pc[p] = "loop" /\ call[p].begun > 0 /\ NoOp(Last(call[p].ran))) =>
                  /\ PersistedVersion = VersionOf(call[p].txPre) + 1
                  /\ PersistedVersion = version[p]
                  /\ version[p] = Last(call[p].ran) + 1
                  /\ db.schema = call[p].txPre.schema
                  /\ db.applied[Last(call[p].ran)] = call[p].txPre.applied[Last(call[p].ran)] + 1

C9_Witness ==
    \E p \in procs :
        /\ InUpgrade(p) /\ pc[p] = "loop" /\ call[p].begun = 2
        /\ call[p].ran = <<0, 1>>
        /\ VersionOf(call[p].txPre) = 1 /\ PersistedVersion = 2

\* C10  Re-running on an up-to-date store is a no-op: an invocation of
\* Upgrade in which nothing fails, on a store whose persisted version is N or
\* more, begins no transaction, executes no step, leaves the committed content
\* as it was and returns nil.
C10_UpToDateNoOp ==
    \A p \in procs :
        (InUpgrade(p) /\ VersionOf(call[p].pre) >= LenUpgrades /\ call[p].fl = {}) =>
            /\ pc[p] \in {"create", "query", "loop", "idle"}
            /\ call[p].begun = 0
            /\ call[p].ran = <<>>
            /\ db = call[p].pre
            /\ err[p] = "nil"

C10_Witness ==
    \E p \in procs :
        /\ Returned(p) /\ call[p].fl = {} /\ err[p] = "nil"
        /\ prev[p].op = "Upgrade" /\ prev[p].err = "nil"
        /\ VersionOf(call[p].pre) = LenUpgrades
        /\ db = call[p].pre

\* C11  Step failure reporting (as claimed): when step i has failed and
\* Upgrade has returned, the transaction is rolled back and the returned error
\* carries the index i.
C11_StepErrorIndex ==
    \A p \in procs :
        (Returned(p) /\ "step" \in call[p].fl) =>
            /\ tx[p].state = "rolledback"
            /\ err[p] # "nil"
            /\ ErrStepIndex(err[p]) = version[p]

\* The invocation of Upgrade by p follows one that returned an error, and no
\* operation has failed in it.
CleanRetry(p) ==
    /\ InUpgrade(p)
    /\ prev[p].op = "Upgrade" /\ prev[p].err # "nil"
    /\ call[p].fl = {}

\* C12  Retry completes (as claimed): an invocation of Upgrade that follows a
\* failed one and in which no operation fails never has to wait for a
\* transaction the failed one left behind, and returns nil with the persisted
\* version N.
C12_RetryCompletes ==
    \A p \in procs :
        CleanRetry(p) =>
            /\ ~Blocked(p)
            /\ pc[p] = "idle" => (err[p] = "nil" /\ PersistedVersion = LenUpgrades)

\* An operation of a step (begin, step execution, version write, commit) has
\* failed in the invocation of Upgrade by p.
Halted(p) ==
    InUpgrade(p) /\ call[p].fl \cap {"begin", "step", "delete", "insert", "commit"} # {}

\* C13  Failure halts the run: once an operation of a step has failed, the
\* invocation is at its return or at the rollback before it, holds an error,
\* and its only further step is that rollback: no transaction is begun, no
\* step is executed and no operation fails again in it.
C13_FailureHalts ==
    [][\A p \in procs :
          /\ Halted(p)' => (pc'[p] \in {"idle", "rollback"} /\ err'[p] # "nil")
          /\ (Halted(p) /\ pc[p] # "idle") =>
                (pc'[p] = "idle" /\ call'[p] = call[p] /\ err'[p] = err[p] /\ db' = db)
      ]_vars

C13_Witness ==
    \E p \in procs :
        /\ Halted(p) /\ pc[p] = "idle"
        /\ "step" \in call[p].fl /\ tx[p].state = "rolledback"
        /\ call[p].begun = 1 /\ call[p].ran = <<0>>

\* C14  Success means fully upgraded: whenever Upgrade returns nil on a store
\* whose persisted version was at most N when it was invoked, whatever failed
\* in it, the persisted version is N and the loop cursor is N.
C14_SuccessComplete ==
    \A p \in procs :
        (Returned(p) /\ err[p] = "nil" /\ VersionOf(call[p].pre) <= LenUpgrades) =>
            /\ PersistedVersion = LenUpgrades
            /\ version[p] = LenUpgrades

C14_Witness ==
    \E p \in procs :
        /\ Returned(p) /\ err[p] = "nil"
        /\ VersionOf(call[p].pre) = 1 /\ call[p].ran = <<1>>
        /\ PersistedVersion = LenUpgrades

\* C15  Bookkeeping table create failure: when the CREATE TABLE of getVersion
\* fails, getVersion returns -1 and the error, Upgrade returns that error at
\* once, no transaction has been begun, no step executed, and the committed
\* content is what it was at the invocation.
C15_CreateFailure ==
    \A p \in procs :
        "create" \in call[p].fl =>
            /\ pc[p] = "idle"
            /\ err[p] = "errCreate"
            /\ version[p] = -1
            /\ call[p].fl = {"create"}
            /\ call[p].begun = 0
            /\ call[p].ran = <<>>
            /\ db = call[p].pre

C15_Witness ==
    \E p \in procs :
        /\ Returned(p) /\ call[p].fl = {"create"}
        /\ err[p] = "errCreate" /\ call[p].begun = 0
        /\ db = call[p].pre /\ PersistedVersion = 1

\* C16  Single-row bookkeeping (as claimed): once the bookkeeping table
\* exists it holds exactly one row in every committed state.
C16_ExactlyOneRow ==
    db.table => Len(db.rows) = 1

\* C16 (amended)  With one upgrading process the bookkeeping table holds at
\* most one row in every committed state: no row until the first upgrade step
\* has committed, exactly one row from then on.
C16_AtMostOneRow ==
    /\ Len(db.rows) <= 1
    /\ db.rows # <<>> => db.table
    /\ DurableSteps = {} => db.rows = <<>>
    /\ DurableSteps # {} => Len(db.rows) = 1

C16_Witness ==
    \E p \in procs :
        /\ call[p].op = "GetVersion" /\ pc[p] = "idle" /\ err[p] = "nil"
        /\ ~call[p].pre.table /\ db.table
        /\ db.rows = <<>>

\* The transaction of p, holding a successful setVersion, has been committed:
\* by a commit that succeeded, or by a failed commit that took effect.
SetVersionCommitted(p) ==
    /\ InUpgrade(p)
    /\ tx[p].state = "committed"
    /\ \/ pc[p] = "loop" /\ call[p].begun > 0
       \/ pc[p] = "idle" /\ err[p] = "errCommit"

\* C17  setVersion replaces: after a transaction with a successful
\* setVersion(tx, v) has been committed, the bookkeeping table holds exactly
\* one row, with the value v, whatever rows it held before.
C17_Replaces ==
    \A p \in procs :
        /\ (InUpgrade(p) /\ pc[p] = "commit") =>
              (tx[p].del /\ tx[p].ins = <<version[p] + 1>>)
        /\ SetVersionCommitted(p) =>
              /\ Len(db.rows) = 1
              /\ db.rows = tx[p].ins
              /\ db.rows[1] = Last(call[p].ran) + 1

C17_Witness ==
    \E p \in procs :
        /\ SetVersionCommitted(p)
        /\ Len(call[p].txPre.rows) = 2
        /\ db.rows = <<Last(call[p].ran) + 1>>

\* The transaction of a step of the invocation of Upgrade by p has just begun.
StepBegins(p) == InUpgrade(p) /\ pc[p] = "migrate"

\* C18  Loop cursor tracks the store (as claimed): when the transaction of a
\* step begins, the index of the step equals the persisted version, the step
\* before it in the invocation has been committed, and the invocation has no
\* other transaction open.
C18_CursorTracks ==
    \A p \in procs :
        /\ StepBegins(p) =>
              /\ version[p] = PersistedVersion
              /\ tx[p].state = "open" /\ tx[p].steps = <<>>
              /\ call[p].begun = Len(call[p].ran) + 1
              /\ call[p].ran # <<>> =>
                    /\ Last(call[p].ran) = version[p] - 1
                    /\ db.applied[version[p] - 1] >= 1
        /\ (InUpgrade(p) /\ pc[p] = "loop" /\ call[p].begun > 0) => tx[p].state = "committed"

\* The invocation of Upgrade by p has executed step i and committed it.
CommittedStep(p, i) ==
    /\ InUpgrade(p)
    /\ \E j \in DOMAIN call[p].ran : call[p].ran[j] = i
    /\ \/ version[p] > i
       \/ version[p] = i /\ tx[p].state = "committed" /\ tx[p].steps = <<i>>

RECURSIVE SumApplied(_)
\* The number of committed step executions at indices below n.
SumApplied(n) == IF n = 0 THEN 0 ELSE db.applied[n - 1] + SumApplied(n - 1)

\* C19  Unlocked concurrent upgrades are unsafe: getVersion reads the version
\* before any transaction of the invocation is begun, and whenever the
\* invocations of two processes have both committed the same step, that step
\* has been applied at least twice while the persisted version stays within
\* 1..N: more step executions are committed than the version has advanced.
C19_ConcurrentUnsafe ==
    /\ \A p \in procs :
          (InUpgrade(p) /\ pc[p] \in {"create", "query"}) => call[p].begun = 0
    /\ \A i \in StepIdx :
          (\A p \in procs : CommittedStep(p, i)) =>
              /\ db.applied[i] >= Cardinality(procs)
              /\ PersistedVersion \in 1 .. LenUpgrades
              /\ SumApplied(LenUpgrades) > PersistedVersion

C19_Witness ==
    /\ \A p \in procs : call[p].fl = {} /\ prev[p] = NoPrev
    /\ \A p \in procs : Returned(p) /\ err[p] = "nil" /\ call[p].ran = <<0, 1>>
    /\ version[1] = version[2]
    /\ db.applied[0] = 2
    /\ PersistedVersion = 2

====
